---- MODULE Spec2Model ----
(***************************************************************************)
(* ESP32-CAM live view with TFT display and still capture to SD card.      *)
(* Model of src/ESP32Cam_TFTDisplay.ino: the button interrupt handler,     *)
(* the main loop (capture handshake, frame acquisition, JPEG tile          *)
(* assembly, display push, FPS window) and capturePhoto.                   *)
(*                                                                         *)
(* The main thread is a process with a position pc; the interrupt handler  *)
(* buttonPressed is an atomic action that may run between any two steps of *)
(* the main thread.  Time (millis) advances only through Tick; a delay(n)  *)
(* is a position the main thread leaves once n ms have elapsed.            *)
(***************************************************************************)
EXTENDS Integers, Sequences, FiniteSets, TLC

VARIABLES
  now,               \* millis(): uptime in ms modulo 2^32 (see Millis)
  era,               \* long stretches of uptime passed (history)
  captureRequested,  \* volatile bool captureRequested
  lastButtonPress,   \* unsigned long lastButtonPress
  pc,                \* position of the main thread
  delayStart,        \* millis() at the start of the delay() in progress, else 0
  sdCardAvailable,   \* bool sdCardAvailable (set once by initSDCard)
  sensorPresent,     \* esp_camera_sensor_get() != NULL
  bufferReady,       \* bool bufferReady (malloc of displayBuffer succeeded)
  tft,               \* <<tft.width(), tft.height()>>
  framesize,         \* sensor frame size: "QVGA" or "VGA"
  quality,           \* sensor JPEG quality
  poolSize,          \* frame size of the frame waiting in the driver's pool
  fb,                \* loop(): camera_fb_t *fb  ("NULL" or the frame's size)
  capFb,             \* capturePhoto(): camera_fb_t *fb
  photoCount,        \* int photoCount
  files,             \* file names handed to SD.open, in order: [token, ok]
  banner,            \* capture banner on the display: [kind, num]
  jpeg,              \* JpegDec.width/height/MCUWidth/MCUHeight and x, y
  tilesLeft,         \* MCUs the decoder has still to deliver
  asm,               \* tile assembly of the current frame (bufIndex, ...)
  pushes,            \* tft.pushImage calls for the current frame
  shown,             \* the last tft.pushImage call: rectangle, source, MCUs left
  frameCount,        \* uint32_t frameCount
  fpsTimer,          \* uint32_t fpsTimer
  currentFPS,        \* float currentFPS, as the exact quotient [num, den]
  \* ---- history (not read by the program) ----
  loops,             \* loop() invocations started
  acquiredN,         \* successful esp_camera_fb_get calls
  releasedN,         \* esp_camera_fb_return calls
  accepted,          \* uptime of the last accepted trigger event
  lastEvent,         \* outcome of the last trigger event
  origin,            \* where the pending request was accepted
  served,            \* origin of the request the running iteration consumed
  observed,          \* value of captureRequested read at the loop's test
  cleared,           \* the loop cleared the flag in this iteration
  invoked,           \* capturePhoto calls in this iteration
  capExit,           \* exit path of this iteration's capturePhoto
  entry,             \* sensor, pool and counter on entry to capturePhoto
  processed,         \* frames that reached the FPS tick
  emitted,           \* FPS samples emitted
  windowStart,       \* uptime at which the current FPS window started
  sampleAt,          \* uptime at which the last FPS sample was computed
  pushedN,           \* tft.pushImage calls since setup
  outcome,           \* how far this iteration's live-view frame got
  start,             \* counters at the start of this iteration
  unserved           \* a request was accepted and no capturePhoto began since

isrVars  == <<captureRequested, lastButtonPress, accepted, lastEvent, origin,
              unserved>>
cfgVars  == <<sdCardAvailable, sensorPresent, bufferReady, tft>>
camVars  == <<framesize, quality>>
poolVars == <<poolSize, acquiredN, releasedN>>
capVars  == <<capFb, photoCount, files, banner, entry>>
iterVars == <<loops, served, observed, cleared, invoked, capExit>>
decVars  == <<jpeg, tilesLeft, asm, pushes, shown, pushedN, outcome, start>>
fpsVars  == <<frameCount, fpsTimer, currentFPS, processed, emitted,
              windowStart, sampleAt>>
vars == <<now, era, pc, delayStart, fb, isrVars, cfgVars, camVars, poolVars,
          capVars, iterVars, decVars, fpsVars>>

----------------------------------------------------------------------------
(* Program constants *)

debounceDelay  == 200      \* const unsigned long debounceDelay = 200
BufferCapacity == 76800    \* 320 * 240 pixels of displayBuffer
FpsWindow      == 30       \* frames per FPS sample
StillQuality   == 4        \* s->set_quality(s, 4)
RestoreQuality == 8        \* s->set_quality(s, 8)
SetupQuality   == 6        \* s->set_quality(s, 6) in setup
ConfigQuality  == 8        \* config.jpeg_quality = 8
NoSdDelay      == 1500     \* delay(1500)
SettleDelay    == 100      \* delay(100)
SavedDelay     == 1000     \* delay(1000)
Width16        == 65536    \* 2^16: uint16_t

(* Bounds of the model *)

WrapBack        == 1000    \* a long stretch of uptime is 2^32 - WrapBack ms
MaxLoops        == 3       \* loop() invocations in Spec
MaxTime         == 2000    \* millis() reached by ordinary ticks in Spec
MaxEras         == 1       \* long stretches of uptime in Spec
MaxDebounceTime == 450     \* uptime in SpecDebounce
MaxFpsLoops     == 61      \* loop() invocations in SpecFps
MaxFpsTime      == 4000    \* uptime in SpecFps
MaxLiveLoops    == 3       \* loop() invocations in SpecLive
MaxLiveTime     == 5000    \* uptime in SpecLive

----------------------------------------------------------------------------
(* Arithmetic of the build *)

U16(n) == n % Width16

\* unsigned long and uint32_t values are 32 bits wide; 2^32 is beyond the
\* integers of the model checker, so a 32-bit value v is held as the integer
\* congruent to v modulo 2^32 that is nearest to zero (its two's complement
\* reading).  Sums and differences of such values are then exact modulo
\* 2^32, and the unsigned comparisons of the code read as follows.
Gt32(x, c) == x < 0 \/ x > c        \* (uint32_t)x >  c, for 0 <= c < 2^31
Ge32(x, c) == x < 0 \/ x >= c       \* (uint32_t)x >= c, for 0 <= c < 2^31
Less32(a, b) == IF (a < 0) = (b < 0) THEN a < b ELSE b < 0  \* a < b unsigned

\* C integer division truncates toward zero
TruncDiv(a, b) == IF a >= 0 THEN a \div b ELSE -((-a) \div b)

\* int16_t conversion of an int (two's complement)
I16(n) == LET m == n % Width16 IN IF m >= 32768 THEN m - Width16 ELSE m

Max(a, b) == IF a >= b THEN a ELSE b

Millis == now

\* delay(n) started at delayStart has returned
DelayOver(n) == Ge32(Millis - delayStart, n)

FrameW(fs) == IF fs = "VGA" THEN 640 ELSE 320
FrameH(fs) == IF fs = "VGA" THEN 480 ELSE 240

NoUptime == [era |-> -1, ms |-> 0]
NoBanner == [kind |-> "NONE", num |-> 0]
NoJpeg   == [w |-> 0, h |-> 0, mcuW |-> 0, mcuH |-> 0, x |-> 0, y |-> 0]
NoAsm    == [bufIndex |-> 0, copied |-> 0, dropped |-> 0, maxEnd |-> 0,
             overlap |-> FALSE, at |-> -1]
NoPush   == [x |-> 0, y |-> 0, w |-> 0, h |-> 0, src |-> "none", left |-> 0]
NoStart  == [frameCount |-> 0, fpsTimer |-> 0, emitted |-> 0, pushedN |-> 0,
             acquiredN |-> 0]
NoFps    == [num |-> 0, den |-> 1]
NoEntry  == [framesize |-> "QVGA", quality |-> 0, acquiredN |-> 0,
             photoCount |-> 0]

CapturePcs == {"cap_nosd_delay", "cap_settle", "cap_get", "cap_persist",
               "cap_saved_delay", "cap_finish"}

----------------------------------------------------------------------------
(* State after setup() *)

InitCommon ==
  /\ now = 0
  /\ era = 0
  /\ captureRequested = FALSE
  /\ lastButtonPress = 0
  /\ delayStart = 0
  /\ sensorPresent = TRUE   \* setup() halts unless esp_camera_init succeeded
  /\ framesize = "QVGA"
  /\ quality = IF sensorPresent THEN SetupQuality ELSE ConfigQuality
  /\ poolSize = "QVGA"
  /\ capFb = "NULL"
  /\ photoCount = 0
  /\ files = <<>>
  /\ banner = NoBanner
  /\ jpeg = NoJpeg
  /\ tilesLeft = 0
  /\ asm = NoAsm
  /\ pushes = 0
  /\ shown = NoPush
  /\ pushedN = 0
  /\ outcome = "none"
  /\ unserved = FALSE
  /\ fpsTimer = 0
  /\ currentFPS = NoFps
  /\ releasedN = 0
  /\ accepted = NoUptime
  /\ lastEvent = "none"
  /\ origin = "none"
  /\ served = "none"
  /\ observed = FALSE
  /\ cleared = FALSE
  /\ invoked = 0
  /\ capExit = "none"
  /\ entry = NoEntry
  /\ emitted = 0
  /\ windowStart = [era |-> 0, ms |-> 0]
  /\ sampleAt = [era |-> 0, ms |-> 0]

Init ==
  /\ InitCommon
  /\ sdCardAvailable \in BOOLEAN
  /\ bufferReady \in BOOLEAN
  /\ loops = 0
  /\ acquiredN = 0
  /\ frameCount = 0
  /\ processed = 0
  /\ start = NoStart
  /\ pc = "check"
  /\ fb = "NULL"
  /\ tft = <<320, 240>>

\* setup() found the SD card and allocated displayBuffer
InitReady ==
  /\ InitCommon
  /\ sdCardAvailable = TRUE
  /\ bufferReady = TRUE
  /\ loops = 0
  /\ acquiredN = 0
  /\ frameCount = 0
  /\ processed = 0
  /\ start = NoStart
  /\ pc = "check"
  /\ fb = "NULL"
  /\ tft = <<320, 240>>

----------------------------------------------------------------------------
(* Clock: d ms pass *)

Tick(d, limit) ==
  /\ now + d <= limit
  /\ now' = now + d
  /\ UNCHANGED <<era, pc, delayStart, fb, isrVars, cfgVars, camVars, poolVars,
                 capVars, iterVars, decVars, fpsVars>>

\* 2^32 - WrapBack ms of live view pass, from one start of loop() to a later
\* one: millis() ends WrapBack ms behind where it was.  The iterations of
\* the stretch are not counted in the history variables.
LongTick ==
  /\ pc = "check"
  /\ era' = era + 1
  /\ now' = now - WrapBack
  /\ UNCHANGED <<pc, delayStart, fb, isrVars, cfgVars, camVars, poolVars,
                 capVars, iterVars, decVars, fpsVars>>

\* a moment of uptime, for the history variables
Uptime == [era |-> era, ms |-> now]

(* Interrupt handler *)

\* the debounce test with >= for >
DebouncePassed_Ge(currentTime) ==
  Ge32(currentTime - lastButtonPress, debounceDelay)

\* currentTime - lastButtonPress > debounceDelay
DebouncePassed(currentTime) ==
  Gt32(currentTime - lastButtonPress, debounceDelay)

buttonPressed ==
  LET currentTime == Millis IN
  /\ IF DebouncePassed(currentTime)
     THEN /\ captureRequested' = TRUE
          /\ lastButtonPress' = currentTime
          /\ accepted' = Uptime
          /\ lastEvent' = "accepted"
          /\ origin' = IF captureRequested THEN origin
                       ELSE IF pc \in CapturePcs THEN "capture" ELSE "idle"
          /\ unserved' = TRUE
     ELSE /\ lastEvent' = "rejected"
          /\ UNCHANGED <<captureRequested, lastButtonPress, accepted, origin,
                         unserved>>
  /\ UNCHANGED <<now, era, pc, delayStart, fb, cfgVars, camVars, poolVars,
                 capVars, iterVars, decVars, fpsVars>>

----------------------------------------------------------------------------
(* loop(): capture handshake, lines 303-306 *)

\* if (captureRequested)
LoopCheck ==
  /\ pc = "check"
  /\ observed' = captureRequested
  /\ pc' = IF captureRequested THEN "clear" ELSE "acquire"
  /\ loops' = loops + 1
  /\ cleared' = FALSE
  /\ invoked' = 0
  /\ capExit' = "none"
  /\ served' = "none"
  /\ outcome' = "none"
  /\ start' = [frameCount |-> frameCount, fpsTimer |-> fpsTimer,
               emitted |-> emitted, pushedN |-> pushedN,
               acquiredN |-> acquiredN]
  /\ UNCHANGED <<now, era, delayStart, fb, isrVars, cfgVars, camVars, poolVars,
                 capVars, jpeg, tilesLeft, asm, pushes, shown, pushedN,
                 fpsVars>>

\* the call of capturePhoto without the clearing of the flag
LoopClear_NoClear ==
  /\ pc = "clear"
  /\ pc' = "cap_enter"
  /\ UNCHANGED <<now, era, delayStart, fb, isrVars, cfgVars, camVars,
                 poolVars, capVars, iterVars, decVars, fpsVars>>

\* captureRequested = false;
LoopClear ==
  /\ pc = "clear"
  /\ captureRequested' = FALSE
  /\ cleared' = TRUE
  /\ served' = origin
  /\ origin' = "none"
  /\ pc' = "cap_enter"
  /\ UNCHANGED <<now, era, delayStart, fb, lastButtonPress, accepted,
                 lastEvent, unserved, cfgVars, camVars, poolVars, capVars,
                 loops, observed, invoked, capExit, decVars, fpsVars>>

----------------------------------------------------------------------------
(* capturePhoto() *)

\* the restore with the frame size left out
RestoreLiveView_QualityOnly ==
  IF sensorPresent
  THEN quality' = RestoreQuality /\ UNCHANGED framesize
  ELSE UNCHANGED camVars

\* s->set_framesize(s, FRAMESIZE_QVGA); s->set_quality(s, 8); under if (s)
RestoreLiveView ==
  IF sensorPresent
  THEN framesize' = "QVGA" /\ quality' = RestoreQuality
  ELSE UNCHANGED camVars

\* the switch to the still profile placed ahead of the SD check
CaptureStart_SwitchFirst ==
  /\ pc = "cap_enter"
  /\ invoked' = invoked + 1
  /\ entry' = [framesize |-> framesize, quality |-> quality,
               acquiredN |-> acquiredN, photoCount |-> photoCount]
  /\ IF sensorPresent
     THEN framesize' = "VGA" /\ quality' = StillQuality
     ELSE UNCHANGED camVars
  /\ delayStart' = Millis
  /\ IF ~sdCardAvailable
     THEN /\ banner' = [kind |-> "NO_SD", num |-> 0]
          /\ pc' = "cap_nosd_delay"
     ELSE /\ banner' = [kind |-> "CAPTURING", num |-> 0]
          /\ pc' = "cap_settle"
  /\ unserved' = FALSE
  /\ UNCHANGED <<now, era, fb, captureRequested, lastButtonPress, accepted,
                 lastEvent, origin, cfgVars, poolVars, capFb, photoCount,
                 files, loops, served, observed, cleared, capExit, decVars,
                 fpsVars>>

\* entry, SD check, "CAPTURING..." banner, switch to the still profile
CaptureStart ==
  /\ pc = "cap_enter"
  /\ invoked' = invoked + 1
  /\ entry' = [framesize |-> framesize, quality |-> quality,
               acquiredN |-> acquiredN, photoCount |-> photoCount]
  /\ IF ~sdCardAvailable
     THEN /\ banner' = [kind |-> "NO_SD", num |-> 0]
          /\ delayStart' = Millis
          /\ pc' = "cap_nosd_delay"
          /\ UNCHANGED camVars
     ELSE /\ banner' = [kind |-> "CAPTURING", num |-> 0]
          /\ IF sensorPresent
             THEN /\ framesize' = "VGA"
                  /\ quality' = StillQuality
                  /\ delayStart' = Millis
                  /\ pc' = "cap_settle"
             ELSE /\ UNCHANGED <<camVars, delayStart>>
                  /\ pc' = "cap_get"
  /\ unserved' = FALSE
  /\ UNCHANGED <<now, era, fb, captureRequested, lastButtonPress, accepted,
                 lastEvent, origin, cfgVars, poolVars, capFb, photoCount,
                 files, loops, served, observed, cleared, capExit, decVars,
                 fpsVars>>

\* delay(1500); return false;
CaptureNoSdReturn ==
  /\ pc = "cap_nosd_delay"
  /\ DelayOver(NoSdDelay)
  /\ capExit' = "no_sd"
  /\ delayStart' = 0
  /\ pc' = "acquire"
  /\ UNCHANGED <<now, era, fb, isrVars, cfgVars, camVars, poolVars,
                 capVars, loops, served, observed, cleared, invoked, decVars,
                 fpsVars>>

\* delay(100) after the switch has returned
CaptureSettled ==
  /\ pc = "cap_settle"
  /\ DelayOver(SettleDelay)
  /\ delayStart' = 0
  /\ pc' = "cap_get"
  /\ UNCHANGED <<now, era, fb, isrVars, cfgVars, camVars, poolVars,
                 capVars, iterVars, decVars, fpsVars>>

\* camera_fb_t *fb = esp_camera_fb_get(); if (!fb) { restore; return false; }
\* got: the driver delivered a frame; stale: it is the frame queued before
\* the last change of frame size
CaptureGet(got, stale) ==
  /\ pc = "cap_get"
  /\ IF got
     THEN /\ capFb' = IF stale THEN poolSize ELSE framesize
          /\ poolSize' = framesize
          /\ acquiredN' = acquiredN + 1
          /\ pc' = "cap_persist"
          /\ UNCHANGED <<camVars, capExit, releasedN>>
     ELSE /\ RestoreLiveView
          /\ capExit' = "no_frame"
          /\ pc' = "acquire"
          /\ UNCHANGED <<capFb, poolVars>>
  /\ UNCHANGED <<now, era, delayStart, fb, isrVars, cfgVars, photoCount, files,
                 banner, entry, loops, served, observed, cleared, invoked,
                 decVars, fpsVars>>

\* photoCount++ moved into the if (file) branch
CapturePersist_CountOnSuccess(opened) ==
  /\ pc = "cap_persist"
  /\ files' = Append(files, [token |-> Millis, ok |-> opened])
  /\ IF opened
     THEN /\ photoCount' = photoCount + 1
          /\ banner' = [kind |-> "SAVED", num |-> photoCount']
          /\ delayStart' = Millis
          /\ pc' = "cap_saved_delay"
     ELSE /\ UNCHANGED <<photoCount, banner, delayStart>>
          /\ pc' = "cap_finish"
  /\ UNCHANGED <<now, era, fb, isrVars, cfgVars, camVars, poolVars, capFb,
                 entry, iterVars, decVars, fpsVars>>

\* the "PHOTO SAVED" banner drawn whether or not the file opened
CapturePersist_SavedAlways(opened) ==
  /\ pc = "cap_persist"
  /\ photoCount' = photoCount + 1
  /\ files' = Append(files, [token |-> Millis, ok |-> opened])
  /\ banner' = [kind |-> "SAVED", num |-> photoCount']
  /\ delayStart' = Millis
  /\ pc' = "cap_saved_delay"
  /\ UNCHANGED <<now, era, fb, isrVars, cfgVars, camVars, poolVars, capFb, entry,
                 iterVars, decVars, fpsVars>>

\* photoCount++; filename from millis(); SD.open; write; "PHOTO SAVED" banner
CapturePersist(opened) ==
  /\ pc = "cap_persist"
  /\ photoCount' = photoCount + 1
  /\ files' = Append(files, [token |-> Millis, ok |-> opened])
  /\ IF opened
     THEN /\ banner' = [kind |-> "SAVED", num |-> photoCount']
          /\ delayStart' = Millis
          /\ pc' = "cap_saved_delay"
     ELSE /\ UNCHANGED <<banner, delayStart>>
          /\ pc' = "cap_finish"
  /\ UNCHANGED <<now, era, fb, isrVars, cfgVars, camVars, poolVars, capFb, entry,
                 iterVars, decVars, fpsVars>>

\* the flag cleared once more after the success banner, to ignore presses
\* made while the photo was taken
CaptureSavedWait_Flush ==
  /\ pc = "cap_saved_delay"
  /\ DelayOver(SavedDelay)
  /\ delayStart' = 0
  /\ captureRequested' = FALSE
  /\ origin' = "none"
  /\ pc' = "cap_finish"
  /\ UNCHANGED <<now, era, fb, lastButtonPress, accepted, lastEvent, unserved,
                 cfgVars, camVars, poolVars, capVars, iterVars, decVars,
                 fpsVars>>

\* delay(1000) after the success banner has returned
CaptureSavedWait ==
  /\ pc = "cap_saved_delay"
  /\ DelayOver(SavedDelay)
  /\ delayStart' = 0
  /\ pc' = "cap_finish"
  /\ UNCHANGED <<now, era, fb, isrVars, cfgVars, camVars, poolVars,
                 capVars, iterVars, decVars, fpsVars>>

\* capturePhoto leaving without returning its frame
ReturnCaptureFrame_Missing == UNCHANGED <<capFb, releasedN>>

\* esp_camera_fb_return(fb); in capturePhoto
ReturnCaptureFrame ==
  /\ capFb' = "NULL"
  /\ releasedN' = releasedN + 1

\* capturePhoto dropping the requests that arrived while it ran
CaptureFinish_DropsPending ==
  /\ pc = "cap_finish"
  /\ ReturnCaptureFrame
  /\ RestoreLiveView
  /\ captureRequested' = FALSE
  /\ origin' = "none"
  /\ capExit' = IF files[Len(files)].ok THEN "saved" ELSE "write_failed"
  /\ pc' = "acquire"
  /\ UNCHANGED <<now, era, delayStart, fb, lastButtonPress, accepted,
                 lastEvent, unserved, cfgVars, poolSize, acquiredN, photoCount,
                 files,
                 banner, entry, loops, served, observed, cleared, invoked,
                 decVars, fpsVars>>

\* esp_camera_fb_return(fb); restore the live-view settings; return true;
CaptureFinish ==
  /\ pc = "cap_finish"
  /\ ReturnCaptureFrame
  /\ RestoreLiveView
  /\ capExit' = IF files[Len(files)].ok THEN "saved" ELSE "write_failed"
  /\ pc' = "acquire"
  /\ UNCHANGED <<now, era, delayStart, fb, isrVars, cfgVars, poolSize, acquiredN,
                 photoCount, files, banner, entry, loops, served, observed,
                 cleared, invoked, decVars, fpsVars>>

----------------------------------------------------------------------------
(* loop(): live-view pipeline, lines 308-404 *)

\* camera_fb_t *fb = esp_camera_fb_get(); if (!fb) return;
LoopAcquire(got, stale) ==
  /\ pc = "acquire"
  /\ IF got
     THEN /\ fb' = IF stale THEN poolSize ELSE framesize
          /\ poolSize' = framesize
          /\ acquiredN' = acquiredN + 1
          /\ pc' = "decode"
          /\ outcome' = "acquired"
          /\ UNCHANGED releasedN
     ELSE /\ pc' = "check"
          /\ outcome' = "empty"
          /\ UNCHANGED <<fb, poolVars>>
  /\ UNCHANGED <<now, era, delayStart, isrVars, cfgVars, camVars, capVars,
                 iterVars, jpeg, tilesLeft, asm, pushes, shown, pushedN, start,
                 fpsVars>>

\* MCUs the decoder delivers for a w x h image
McuCount(w, h, mcuW, mcuH) ==
  ((w + mcuW - 1) \div mcuW) * ((h + mcuH - 1) \div mcuH)

\* the centering with the quotient rounded down
CenterOrigin_Floor(W, w) == I16((W - w) \div 2)

\* int16_t x = (tft.width() - w) / 2;  (W: display extent, w: frame extent)
CenterOrigin(W, w) == I16(TruncDiv(W - w, 2))

\* the FPS block placed after the if (decodeArray) block instead of in it
LoopDecode_TickOnFailure(decoded, mcu) ==
  /\ pc = "decode"
  /\ IF decoded
     THEN LET w == U16(FrameW(fb))
              h == U16(FrameH(fb))
          IN /\ jpeg' = [w |-> w, h |-> h, mcuW |-> mcu[1], mcuH |-> mcu[2],
                         x |-> CenterOrigin(tft[1], w),
                         y |-> CenterOrigin(tft[2], h)]
             /\ tilesLeft' = McuCount(w, h, mcu[1], mcu[2])
             /\ asm' = NoAsm
             /\ pushes' = 0
             /\ outcome' = "decoded"
             /\ pc' = "tiles"
     ELSE /\ pc' = "fps"
          /\ outcome' = "undecoded"
          /\ UNCHANGED <<jpeg, tilesLeft, asm, pushes>>
  /\ UNCHANGED <<shown, pushedN, start>>
  /\ UNCHANGED <<now, era, delayStart, fb, isrVars, cfgVars, camVars, poolVars,
                 capVars, iterVars, fpsVars>>

\* if (JpegDec.decodeArray(...)) { w, h, x, y; bufIndex = 0; ...
\* decoded: decodeArray succeeded; mcu: the MCU size of the image
LoopDecode(decoded, mcu) ==
  /\ pc = "decode"
  /\ IF decoded
     THEN LET w == U16(FrameW(fb))
              h == U16(FrameH(fb))
          IN /\ jpeg' = [w |-> w, h |-> h, mcuW |-> mcu[1], mcuH |-> mcu[2],
                         x |-> CenterOrigin(tft[1], w),
                         y |-> CenterOrigin(tft[2], h)]
             /\ tilesLeft' = McuCount(w, h, mcu[1], mcu[2])
             /\ asm' = NoAsm
             /\ pushes' = 0
             /\ outcome' = "decoded"
             /\ pc' = "tiles"
     ELSE /\ pc' = "release"
          /\ outcome' = "undecoded"
          /\ UNCHANGED <<jpeg, tilesLeft, asm, pushes>>
  /\ UNCHANGED <<shown, pushedN, start>>
  /\ UNCHANGED <<now, era, delayStart, fb, isrVars, cfgVars, camVars, poolVars,
                 capVars, iterVars, fpsVars>>

\* the loop body with an int index and no guard
CopyTile_Unguarded(a, mcuPixels) ==
  [bufIndex |-> a.bufIndex + mcuPixels,
   copied   |-> a.copied + mcuPixels,
   dropped  |-> a.dropped,
   maxEnd   |-> Max(a.maxEnd, a.bufIndex + mcuPixels),
   overlap  |-> a.overlap \/ a.bufIndex < a.maxEnd,
   at       |-> a.bufIndex]

\* body of the buffered while loop for one MCU of mcuPixels pixels:
\* if (bufIndex + mcuPixels <= 320*240) { memcpy; bufIndex += mcuPixels; }
CopyTile(a, mcuPixels) ==
  IF a.bufIndex + mcuPixels <= BufferCapacity
  THEN [bufIndex |-> U16(a.bufIndex + mcuPixels),
        copied   |-> a.copied + mcuPixels,
        dropped  |-> a.dropped,
        maxEnd   |-> Max(a.maxEnd, a.bufIndex + mcuPixels),
        overlap  |-> a.overlap \/ a.bufIndex < a.maxEnd,
        at       |-> a.bufIndex]
  ELSE [a EXCEPT !.dropped = @ + 1, !.at = -1]

\* uint16_t mcuPixels = JpegDec.MCUWidth * JpegDec.MCUHeight;
McuPixels == U16(jpeg.mcuW * jpeg.mcuH)

\* MCUs per row and in all of the image being decoded
McuCols == (jpeg.w + jpeg.mcuW - 1) \div jpeg.mcuW
McuTotal == McuCount(jpeg.w, jpeg.h, jpeg.mcuW, jpeg.mcuH)

\* JpegDec.MCUx, JpegDec.MCUy of the k-th MCU delivered (raster order)
MCUx(k) == k % McuCols
MCUy(k) == k \div McuCols

\* direct path: tft.pushImage(MCUx * MCUWidth + x, MCUy * MCUHeight + y,
\* MCUWidth, MCUHeight, pImage) for the k-th MCU, with left MCUs to come
TilePush(k, left) ==
  [x |-> MCUx(k) * jpeg.mcuW + jpeg.x, y |-> MCUy(k) * jpeg.mcuH + jpeg.y,
   w |-> jpeg.mcuW, h |-> jpeg.mcuH, src |-> "tile", left |-> left]

\* buffered path: tft.pushImage(x, y, w, h, displayBuffer)
BufferPush(left) ==
  [x |-> jpeg.x, y |-> jpeg.y, w |-> jpeg.w, h |-> jpeg.h, src |-> "buffer",
   left |-> left]

\* direct path: display coordinate of pixel (dx, dy) of the k-th MCU
DirectAt(k, dx, dy) ==
  <<MCUx(k) * jpeg.mcuW + jpeg.x + dx, MCUy(k) * jpeg.mcuH + jpeg.y + dy>>

\* buffered path: display coordinate of pixel (dx, dy) of the MCU that
\* memcpy put at offset at of displayBuffer, when pushImage(x, y, w, h,
\* displayBuffer) draws the buffer as h rows of w pixels
BufferedAt(at, dx, dy) ==
  LET i == at + dy * jpeg.mcuW + dx
  IN  <<jpeg.x + (i % jpeg.w), jpeg.y + (i \div jpeg.w)>>

\* one pass of while (JpegDec.read()) with an MCU delivered
ReadTile ==
  /\ pc = "tiles"
  /\ tilesLeft > 0
  /\ tilesLeft' = tilesLeft - 1
  /\ IF bufferReady
     THEN /\ asm' = CopyTile(asm, McuPixels)
          /\ UNCHANGED <<pushes, shown, pushedN>>
     ELSE /\ pushes' = pushes + 1
          /\ shown' = TilePush(McuTotal - tilesLeft, tilesLeft')
          /\ pushedN' = pushedN + 1
          /\ UNCHANGED asm
  /\ UNCHANGED <<now, era, pc, delayStart, fb, isrVars, cfgVars, camVars,
                 poolVars, capVars, iterVars, jpeg, outcome, start, fpsVars>>

\* the buffered push issued inside the while loop, after any MCU
PushFrame_InsideLoop ==
  /\ pc = "tiles"
  /\ IF bufferReady
     THEN /\ pushes' = pushes + 1
          /\ shown' = BufferPush(tilesLeft)
          /\ pushedN' = pushedN + 1
     ELSE UNCHANGED <<pushes, shown, pushedN>>
  /\ pc' = IF tilesLeft = 0 THEN "fps" ELSE "tiles"
  /\ UNCHANGED <<now, era, delayStart, fb, isrVars, cfgVars, camVars, poolVars,
                 capVars, iterVars, jpeg, tilesLeft, asm, outcome, start,
                 fpsVars>>

\* JpegDec.read() returns false; buffered path: tft.pushImage(x, y, w, h, ..)
PushFrame ==
  /\ pc = "tiles"
  /\ tilesLeft = 0
  /\ IF bufferReady
     THEN /\ pushes' = pushes + 1
          /\ shown' = BufferPush(tilesLeft)
          /\ pushedN' = pushedN + 1
     ELSE UNCHANGED <<pushes, shown, pushedN>>
  /\ pc' = "fps"
  /\ UNCHANGED <<now, era, delayStart, fb, isrVars, cfgVars, camVars, poolVars,
                 capVars, iterVars, jpeg, tilesLeft, asm, outcome, start,
                 fpsVars>>

\* MCU size of the sensor's YUV422 JPEG
McuMain == {<<16, 8>>}

\* n passes of the buffered loop body, in order
RECURSIVE Drain(_, _, _)
Drain(a, n, mcuPixels) ==
  IF n = 0 THEN a
  ELSE IF n = 1 THEN CopyTile(a, mcuPixels)
  ELSE CHOOSE r \in {Drain(half, n - (n \div 2), mcuPixels) :
                       half \in {Drain(a, n \div 2, mcuPixels)}} : TRUE

\* the buffered loop over the n MCUs of a frame, from bufIndex = 0, for the
\* frames of the sensor (evaluated once)
AssemblyTable ==
  [k \in {<<McuCount(FrameW(f), FrameH(f), m[1], m[2]), U16(m[1] * m[2])>> :
            f \in {"QVGA", "VGA"}, m \in McuMain}
     |-> Drain(NoAsm, k[1], k[2])]

\* the buffered loop over the MCUs left
DrainLeft ==
  IF asm = NoAsm /\ <<tilesLeft, McuPixels>> \in DOMAIN AssemblyTable
  THEN AssemblyTable[<<tilesLeft, McuPixels>>]
  ELSE Drain(asm, tilesLeft, McuPixels)

\* the whole of lines 321-352: every MCU, then the push
AssembleFrame ==
  /\ pc = "tiles"
  /\ tilesLeft' = 0
  /\ IF bufferReady
     THEN /\ asm' = DrainLeft
          /\ pushes' = pushes + 1
          /\ shown' = BufferPush(0)
          /\ pushedN' = pushedN + 1
     ELSE /\ pushes' = pushes + tilesLeft
          /\ shown' = IF tilesLeft > 0 THEN TilePush(McuTotal - 1, 0) ELSE shown
          /\ pushedN' = pushedN + tilesLeft
          /\ UNCHANGED asm
  /\ pc' = "fps"
  /\ UNCHANGED <<now, era, delayStart, fb, isrVars, cfgVars, camVars, poolVars,
                 capVars, iterVars, jpeg, outcome, start, fpsVars>>

\* the window test with > for >=
WindowFull_Late(n) == n > FpsWindow

\* frameCount >= 30
WindowFull(n) == n >= FpsWindow

\* frameCount++; if (frameCount >= 30) { elapsed; currentFPS; badge; ...
LoopFps ==
  /\ pc = "fps"
  /\ frameCount' = frameCount + 1
  /\ processed' = processed + 1
  /\ IF WindowFull(frameCount')
     THEN /\ currentFPS' = [num |-> frameCount' * 1000,
                            den |-> Millis - fpsTimer]
          /\ emitted' = emitted + 1
          /\ sampleAt' = Uptime
          /\ pc' = "fps_reset"
     ELSE /\ pc' = "release"
          /\ UNCHANGED <<currentFPS, emitted, sampleAt>>
  /\ UNCHANGED <<now, era, delayStart, fb, isrVars, cfgVars, camVars, poolVars,
                 capVars, iterVars, decVars, fpsTimer, windowStart>>

\* frameCount = 0; fpsTimer = millis(); }
FpsReset ==
  /\ pc = "fps_reset"
  /\ frameCount' = 0
  /\ fpsTimer' = Millis
  /\ windowStart' = Uptime
  /\ pc' = "release"
  /\ UNCHANGED <<now, era, delayStart, fb, isrVars, cfgVars, camVars, poolVars,
                 capVars, iterVars, decVars, currentFPS, processed, emitted,
                 sampleAt>>

\* esp_camera_fb_return(fb);
LoopRelease ==
  /\ pc = "release"
  /\ fb' = "NULL"
  /\ releasedN' = releasedN + 1
  /\ pc' = "check"
  /\ UNCHANGED <<now, era, delayStart, isrVars, cfgVars, camVars, poolSize,
                 acquiredN, capVars, iterVars, decVars, fpsVars>>

----------------------------------------------------------------------------
(* The program with its environment: button, clock, driver, decoder, SD *)

TickSteps == {1000}              \* ms between observations of the clock

Clock ==
  \/ \E d \in TickSteps : Tick(d, MaxTime)
  \/ era < MaxEras /\ LongTick

Capture ==
  \/ CaptureStart
  \/ CaptureNoSdReturn
  \/ CaptureSettled
  \/ \E got \in BOOLEAN, stale \in BOOLEAN : CaptureGet(got, stale)
  \/ \E opened \in BOOLEAN : CapturePersist(opened)
  \/ CaptureSavedWait
  \/ CaptureFinish

Next ==
  \/ Clock
  \/ buttonPressed
  \/ loops < MaxLoops /\ LoopCheck
  \/ LoopClear
  \/ Capture
  \/ \E got \in BOOLEAN, stale \in BOOLEAN : LoopAcquire(got, stale)
  \/ \E decoded \in BOOLEAN, mcu \in McuMain : LoopDecode(decoded, mcu)
  \/ AssembleFrame
  \/ LoopFps
  \/ LoopRelease

Spec == Init /\ [][Next]_vars

----------------------------------------------------------------------------
(* The program with a main loop that keeps running and a clock that keeps  *)
(* advancing, as long as the bounds allow                                  *)

\* the next step of the main thread
MainStep ==
  \/ loops < MaxLiveLoops /\ LoopCheck
  \/ LoopClear
  \/ Capture
  \/ \E got \in BOOLEAN, stale \in BOOLEAN : LoopAcquire(got, stale)
  \/ \E decoded \in BOOLEAN, mcu \in McuMain : LoopDecode(decoded, mcu)
  \/ AssembleFrame
  \/ LoopFps
  \/ LoopRelease

\* the main thread is inside a delay() that has not run out
Delaying ==
  \/ pc = "cap_nosd_delay" /\ ~DelayOver(NoSdDelay)
  \/ pc = "cap_settle" /\ ~DelayOver(SettleDelay)
  \/ pc = "cap_saved_delay" /\ ~DelayOver(SavedDelay)

\* at the resolution of the clock's observations the steps of the main
\* thread take no time: time passes in delay() and between iterations
ClockLive ==
  /\ Delaying \/ pc = "check"
  /\ \E d \in TickSteps : Tick(d, MaxLiveTime)

\* the button is pressed while the bounded run has an iteration and the
\* longest delay of capturePhoto (two observations of the clock) left
PressInTime ==
  /\ loops < MaxLiveLoops
  /\ \A d \in TickSteps : now + 2 * d <= MaxLiveTime
  /\ buttonPressed

NextLive ==
  \/ ClockLive
  \/ PressInTime
  \/ MainStep

SpecLive ==
  Init /\ [][NextLive]_vars /\ WF_vars(MainStep) /\ WF_vars(ClockLive)

----------------------------------------------------------------------------
(* The interrupt handler alone, on a millisecond clock *)

TickFine == {1}

NextDebounce ==
  \/ \E d \in TickFine : Tick(d, MaxDebounceTime)
  \/ buttonPressed

SpecDebounce == InitReady /\ [][NextDebounce]_vars

----------------------------------------------------------------------------
(* The live-view loop with no trigger events, over two FPS windows *)

TickFps == {2000}

NextFps ==
  \/ \E d \in TickFps : Tick(d, MaxFpsTime)
  \/ loops < MaxFpsLoops /\ LoopCheck
  \/ LoopAcquire(TRUE, FALSE)
  \/ \E decoded \in BOOLEAN, mcu \in McuMain : LoopDecode(decoded, mcu)
  \/ AssembleFrame
  \/ LoopFps
  \/ FpsReset
  \/ LoopRelease

SpecFps == InitReady /\ [][NextFps]_vars

----------------------------------------------------------------------------
(* One iteration from the decode to the release, MCU by MCU, over the      *)
(* frames and MCU sizes the decoder can report and the display sizes       *)

McuSizes == {<<8, 8>>, <<16, 8>>, <<8, 16>>, <<16, 16>>}

\* <<tft.width(), tft.height()>> at rotation 0 for panels the display
\* library is built for: 320 x 240, 240 x 320 and 135 x 240
DisplaySizes == {<<320, 240>>, <<240, 320>>, <<135, 240>>}

InitTiles ==
  /\ InitCommon
  /\ sdCardAvailable = TRUE
  /\ bufferReady \in BOOLEAN
  /\ tft \in DisplaySizes
  /\ loops = 1
  /\ acquiredN = 1
  /\ frameCount \in {0, FpsWindow - 1}
  /\ processed = frameCount
  /\ start = [NoStart EXCEPT !.frameCount = frameCount]
  /\ pc = "decode"
  /\ fb \in {"QVGA", "VGA"}

NextTiles ==
  \/ \E decoded \in BOOLEAN, mcu \in McuSizes : LoopDecode(decoded, mcu)
  \/ ReadTile
  \/ PushFrame
  \/ LoopFps
  \/ FpsReset
  \/ LoopRelease

SpecTiles == InitTiles /\ [][NextTiles]_vars

----------------------------------------------------------------------------
(* Properties *)

PipelinePcs == {"acquire", "decode", "tiles", "fps", "fps_reset", "release"}

\* C1: whenever the main loop is about to acquire a live-view frame, also
\* right after capturePhoto returned on any of its exit paths, the sensor is
\* in the live-view profile: frame size QVGA and one of the live-view
\* qualities of the code (6 from setup, 8 from the restore), never VGA and
\* never the still quality 4.
C1_ProfileRestored ==
  pc = "acquire" =>
    /\ framesize = "QVGA"
    /\ quality \in {SetupQuality, RestoreQuality}
    /\ quality # StillQuality

\* capturePhoto failed to get its frame and the loop is about to acquire
C1_Witness == pc = "acquire" /\ capExit = "no_frame" /\ quality = RestoreQuality

\* C2: every acquired frame is released exactly once before the next
\* acquisition: at most one frame is out of the pool, it is the one the
\* holder's pointer names, and nothing is out at the loop top or when
\* loop() or capturePhoto() call esp_camera_fb_get.
C2_FrameReturn ==
  /\ acquiredN - releasedN \in {0, 1}
  /\ (acquiredN - releasedN = 1) <=> (fb # "NULL" \/ capFb # "NULL")
  /\ ~(fb # "NULL" /\ capFb # "NULL")
  /\ pc \in {"check", "clear", "cap_enter", "cap_get", "acquire"}
       => acquiredN = releasedN
  /\ fb # "NULL" <=> pc \in {"decode", "tiles", "fps", "fps_reset", "release"}
  /\ capFb # "NULL" <=> pc \in {"cap_persist", "cap_saved_delay", "cap_finish"}

\* a capture frame whose write failed and a live-view frame whose decode
\* failed have both been returned
C2_Witness ==
  /\ pc = "check"
  /\ capExit = "write_failed"
  /\ pushes = 0
  /\ acquiredN = 2
  /\ releasedN = 2

\* C3: on the buffered path the pixels copied into displayBuffer during one
\* frame never total more than its 320 x 240 capacity.
C3_BufferSafety == bufferReady => asm.copied <= BufferCapacity

\* moments of uptime a and b, a before b, are more than debounceDelay apart
\* (across a long stretch of uptime they are more than 2^31 ms apart)
Apart(a, b) == a.era < b.era \/ (a.era = b.era /\ b.ms - a.ms > debounceDelay)

\* C4: a trigger event is accepted only if the previously accepted one is
\* more than 200 ms older, so no 200 ms window holds two accepted requests.
C4_Debounce ==
  [][accepted' # accepted =>
       /\ captureRequested' /\ lastButtonPress' = now
       /\ accepted = NoUptime \/ Apart(accepted, accepted')]_vars

\* an event arriving exactly 200 ms after an accepted one was rejected
C4_Witness ==
  /\ lastEvent = "rejected"
  /\ accepted # NoUptime
  /\ now - accepted.ms = debounceDelay

\* C5 as stated: no invocation of capturePhoto serves a request that was
\* accepted while an earlier capturePhoto was executing.
C5_DiscardedDuringCapture == ~(pc \in CapturePcs /\ served = "capture")

\* C5 amended: a request accepted while capturePhoto is executing is kept
\* in the pending flag; it ceases to be pending only when the loop clears
\* the flag on its way into the next capturePhoto.
C5_KeptPending ==
  /\ [](origin = "capture" => captureRequested)
  /\ [][origin = "capture" =>
          \/ origin' = "capture"
          \/ pc = "clear" /\ pc' = "cap_enter" /\ served' = "capture"]_vars

\* a second capturePhoto runs for a request accepted during the first
C5_Witness == pc \in CapturePcs /\ served = "capture" /\ photoCount = 1

\* C6: capturePhoto runs in an iteration exactly if the loop's test saw the
\* flag set, once, after the loop cleared the flag, and has returned (frame
\* returned, sensor restored) before the iteration's live-view acquisition.
C6_Handshake ==
  /\ pc \in CapturePcs \cup {"cap_enter"} => observed /\ cleared
  /\ pc \in CapturePcs => invoked = 1 /\ capExit = "none"
  /\ pc \in {"clear", "cap_enter"} => observed /\ invoked = 0
  /\ pc \in PipelinePcs =>
       /\ invoked = IF observed THEN 1 ELSE 0
       /\ observed <=> capExit # "none"
       /\ observed => cleared
       /\ capFb = "NULL"
       /\ framesize = "QVGA"

\* the loop acquires its frame after a capturePhoto that saved a photo
C6_Witness ==
  pc = "acquire" /\ observed /\ invoked = 1 /\ capExit = "saved"

\* C7: with no SD card capturePhoto shows the error banner and returns with
\* sensor settings, frame pool and photoCount as they were on entry.
C7_NoSdAbort ==
  (pc = "cap_nosd_delay" \/ (pc = "acquire" /\ capExit = "no_sd")) =>
    /\ banner.kind = "NO_SD"
    /\ framesize = entry.framesize
    /\ quality = entry.quality
    /\ acquiredN = entry.acquiredN
    /\ releasedN = acquiredN
    /\ capFb = "NULL"
    /\ photoCount = entry.photoCount

\* capturePhoto returned on the no-SD path and the loop is about to acquire
C7_Witness == pc = "acquire" /\ capExit = "no_sd" /\ ~sdCardAvailable

\* C8: the file names of the captures that reached the persisting step are
\* pairwise distinct and strictly increasing in capture order.
C8_DistinctIncreasing ==
  \A i \in 1..Len(files) : \A j \in 1..Len(files) :
    i < j => Less32(files[i].token, files[j].token)

\* C9: photoCount never decreases; capturePhoto adds exactly one if it got
\* its frame, whether or not the write succeeded, and nothing otherwise; the
\* success banner carries the count of a capture whose write succeeded.
C9_Inv ==
  /\ photoCount = Len(files)
  /\ (pc = "acquire" /\ capExit # "none") =>
       /\ photoCount = entry.photoCount
            + (IF capExit \in {"saved", "write_failed"} THEN 1 ELSE 0)
       /\ capExit = "saved" => banner = [kind |-> "SAVED", num |-> photoCount]
       /\ capExit # "saved" => banner.kind # "SAVED" \/ banner.num < photoCount
  /\ banner.kind = "SAVED" =>
       banner.num \in 1..Len(files) /\ files[banner.num].ok

C10_Inv ==
  /\ emitted = processed \div FpsWindow
  /\ pc # "fps_reset" => frameCount = processed % FpsWindow
  /\ pc = "fps_reset" => frameCount = FpsWindow
  /\ fpsTimer = windowStart.ms
  /\ emitted > 0 =>
       /\ currentFPS.num = FpsWindow * 1000
       /\ currentFPS.den = 2000 => currentFPS.num = 15 * currentFPS.den
  /\ pc = "fps_reset" =>
       /\ sampleAt.era = windowStart.era
       /\ currentFPS.den = sampleAt.ms - windowStart.ms
  /\ (emitted > 0 /\ pc # "fps_reset") =>
       /\ sampleAt.era = windowStart.era
       /\ windowStart.ms >= sampleAt.ms

\* C10: the FPS window keeps C10_Inv, and the step that ends an emission
\* leaves frameCount = 0 and fpsTimer = millis().
C10_FpsWindow ==
  /\ []C10_Inv
  /\ [][(pc = "fps_reset" /\ pc' # pc) =>
          frameCount' = 0 /\ fpsTimer' = now]_vars

\* the first window took 2000 ms: sample 15.0, counters reset
C10_Witness ==
  /\ pc = "release"
  /\ emitted = 1
  /\ currentFPS = [num |-> 30000, den |-> 2000]
  /\ frameCount = 0
  /\ fpsTimer = 2000

\* the frame of the last push: the whole frame on the buffered path, the
\* top-left MCU on the direct path
FramePushed ==
  \/ shown.src = "buffer"
  \/ shown.src = "tile" /\ pushes = 1

\* C11 as stated: every decoded frame, wider or taller than the display or
\* not, is presented with its top-left corner at
\* (floor((W - w) / 2), floor((H - h) / 2)).
C11_CenteringFloor ==
  FramePushed =>
    /\ shown.x = (tft[1] - jpeg.w) \div 2
    /\ shown.y = (tft[2] - jpeg.h) \div 2

\* q is half of d, rounded toward zero
HalfTowardZero(d, q) ==
  \/ 2 * q = d
  \/ d > 0 /\ 2 * q = d - 1
  \/ d < 0 /\ 2 * q = d + 1

\* C11 amended: the top-left corner is at ((W - w) / 2, (H - h) / 2) with
\* each quotient rounded toward zero.
C11_CenteringTowardZero ==
  FramePushed =>
    /\ HalfTowardZero(tft[1] - jpeg.w, shown.x)
    /\ HalfTowardZero(tft[2] - jpeg.h, shown.y)

\* a 320 x 240 frame pushed from the buffer to a 135 x 240 display: -185 / 2
C11_Witness ==
  /\ shown.src = "buffer"
  /\ tft = <<135, 240>>
  /\ jpeg.w = 320
  /\ shown.x = -92
  /\ shown.y = 0

\* exits of capturePhoto on a recoverable failure
FailureExits == {"no_sd", "no_frame", "write_failed"}

\* what the display shows is an error banner
IsErrorBanner(b) == b.kind \notin {"NONE", "CAPTURING", "SAVED"}

C13_CopyInBounds ==
  /\ [](bufferReady =>
          /\ asm.maxEnd <= BufferCapacity
          /\ asm.at >= 0 => asm.at + McuPixels <= BufferCapacity)
  /\ [][asm'.dropped > asm.dropped =>
          /\ asm'.copied = asm.copied
          /\ asm'.bufIndex = asm.bufIndex
          /\ asm'.maxEnd = asm.maxEnd]_vars

\* a 640 x 480 frame of 16 x 16 MCUs, drained to the end: more pixels were
\* copied than the buffer holds, each copy inside it
C13_Witness ==
  /\ bufferReady
  /\ pc = "tiles"
  /\ tilesLeft = 0
  /\ asm.copied = 640 * 480
  /\ asm.maxEnd = Width16
  /\ asm.dropped = 0

\* C14: on the buffered path each MCU is copied to the offset that is the
\* sum of the pixel counts of the MCUs copied before it in the frame (the
\* 16-bit index never wraps), and for a full 320 x 240 frame no MCU is
\* copied over pixels of an earlier one.
C14_RunningOffset ==
  bufferReady =>
    /\ asm.at >= 0 => asm.at + McuPixels = asm.copied
    /\ asm.bufIndex = asm.copied
    /\ (jpeg.w = 320 /\ jpeg.h = 240) => ~asm.overlap

\* the iteration's frame acquisition came back empty or its decode failed
Skipped == outcome \in {"empty", "undecoded"}

Presented ==
  \/ pc \in {"fps", "fps_reset"}
  \/ pc = "release" /\ outcome = "decoded"

\* C16: with displayBuffer available a decoded frame is pushed exactly once,
\* after the decoder has delivered its last MCU, as the w x h rectangle at
\* the centering origin; the FPS badge is drawn after that push and never
\* while MCUs remain.
C16_SinglePush ==
  /\ [](bufferReady =>
          /\ pc = "tiles" => pushes = 0
          /\ Presented =>
               /\ pushes = 1
               /\ tilesLeft = 0
               /\ asm.copied + asm.dropped * McuPixels = McuTotal * McuPixels
               /\ shown = [x |-> jpeg.x, y |-> jpeg.y, w |-> jpeg.w,
                           h |-> jpeg.h, src |-> "buffer", left |-> 0]
               /\ HalfTowardZero(tft[1] - jpeg.w, shown.x)
               /\ HalfTowardZero(tft[2] - jpeg.h, shown.y))
  /\ [][(bufferReady /\ emitted' # emitted) =>
          pc = "fps" /\ pushes = 1 /\ tilesLeft = 0 /\ pushes' = 1]_vars

\* the thirtieth frame of a window: pushed once from the buffer, then the
\* badge drawn
C16_Witness ==
  /\ bufferReady
  /\ pc = "fps_reset"
  /\ emitted = 1
  /\ pushes = 1
  /\ shown.src = "buffer"
  /\ shown.w = 320

\* C17: both paths show the same image: every pixel (dx, dy) of the MCU the
\* buffered path has just copied comes out at the display coordinate where
\* the direct path draws it, (x + MCUx * MCUWidth + dx,
\* y + MCUy * MCUHeight + dy).
C17_SameImage ==
  (bufferReady /\ pc \in {"tiles", "fps"} /\ asm.at >= 0) =>
    \A dx \in 0..(jpeg.mcuW - 1) : \A dy \in 0..(jpeg.mcuH - 1) :
      BufferedAt(asm.at, dx, dy) = DirectAt(McuTotal - tilesLeft - 1, dx, dy)

\* C18: capturePhoto is a round trip on the sensor settings: when it has
\* returned, on any path, frame size and quality are what they were when it
\* was entered.
C18_RoundTrip ==
  (pc = "acquire" /\ capExit # "none") =>
    /\ framesize = entry.framesize
    /\ quality = entry.quality

\* C19: the push from displayBuffer never reads past its end: every frame
\* pushed from the buffer has w * h <= 320 * 240, also the first live-view
\* frames after a still capture.
C19_PushWithinBuffer ==
  (bufferReady /\ shown.src = "buffer") => shown.w * shown.h <= BufferCapacity

\* C20: no accepted request is lost: with the main loop running, every
\* accepted trigger event is followed by a capturePhoto invocation that
\* begins after the acceptance, wherever the handler cut into the loop's
\* test and clear of the flag.
C20_NoLostRequest == unserved ~> ~unserved

\* a request accepted while capturePhoto was running has been served by a
\* second invocation, which saved the second photo
C20_Witness ==
  /\ ~unserved
  /\ pc = "acquire"
  /\ served = "capture"
  /\ capExit = "saved"
  /\ photoCount = 2

====
